---- MODULE Spec2Model ----
(***************************************************************************)
(* Jobber Community scraper (scrape.ts): the listing crawl with its dedup  *)
(* store, the per-discussion detail extraction with the Content Revealer,  *)
(* the text cleanup utilities and the reply reconciliation.                *)
(*                                                                         *)
(* JavaScript strings are TLA+ strings; TLC evaluates Len, Head, Tail,     *)
(* SubSeq and \o on them, so the regular expressions of the source are     *)
(* translated character by character.                                      *)
(***************************************************************************)
EXTENDS Integers, Sequences, FiniteSets, TLC

VARIABLES
    pc,            \* position of the single control flow (main -> list crawl -> details -> write)
    current,       \* scrapeDiscussionList: `current` listing URL or Null
    visitedPages,  \* scrapeDiscussionList: Set of listing URLs already navigated to
    collected,     \* scrapeDiscussionList: insertion-ordered Map url -> summary, as a sequence
    dom,           \* page: summary rows currently rendered on the listing page
    lmVisible,     \* page: a "load more" control is currently visible
    lmI,           \* tryLoadMoreAndScroll: counter i of the load-more loop (0 outside the loop)
    scI,           \* tryLoadMoreAndScroll: counter i of the scroll loop (0 outside the loop)
    idx,           \* driver: position of the iterator over collected.values()
    allDetails,    \* driver: the export collection
    output,        \* main: online_booking_full.json, [written, data]
    round,         \* expandAllContent: loop counter
    ctl,           \* page: reveal controls [visible, sticky, hidden]
    hist,          \* history (not program state): what was sighted, attempted, clicked
    txt            \* a text utility exercised on its own: its input, and its result once done

vars == <<pc, current, visitedPages, collected, dom, lmVisible, lmI, scI, idx,
          allDetails, output, round, ctl, hist, txt>>

Null == "<null>"
Undefined == -1

-----------------------------------------------------------------------------
(* Characters and strings                                                  *)

UpperStr == "ABCDEFGHIJKLMNOPQRSTUVWXYZ"
LowerStr == "abcdefghijklmnopqrstuvwxyz"
DigitStr == "0123456789"

At(s, i) == IF i >= 1 /\ i <= Len(s) THEN SubSeq(s, i, i) ELSE ""

CharsOf(s) == {SubSeq(s, i, i) : i \in 1..Len(s)}

UpperSet == CharsOf(UpperStr)
LowerSet == CharsOf(LowerStr)
Digits == CharsOf(DigitStr)
Letters == UpperSet \cup LowerSet
\* \w
WordChars == Letters \cup Digits \cup {"_"}
\* \s (the white space that occurs in the texts of the model)
Whitespace == {" ", "\t", "\n", "\r"}
\* line terminators, which `.` does not match
LineTerminators == {"\n", "\r"}

LowerOf ==
    [c \in UpperSet |-> At(LowerStr, CHOOSE k \in 1..26 : At(UpperStr, k) = c)]

RECURSIVE toLowerCase(_)
toLowerCase(s) ==
    IF s = "" THEN ""
    ELSE (IF Head(s) \in UpperSet THEN LowerOf[Head(s)] ELSE Head(s))
         \o toLowerCase(Tail(s))

RECURSIVE TrimStart(_)
TrimStart(s) ==
    IF s # "" /\ Head(s) \in Whitespace THEN TrimStart(Tail(s)) ELSE s

RECURSIVE TrimEnd(_)
TrimEnd(s) ==
    IF s # "" /\ At(s, Len(s)) \in Whitespace
    THEN TrimEnd(SubSeq(s, 1, Len(s) - 1)) ELSE s

trim(s) == TrimEnd(TrimStart(s))

includes(s, t) ==
    \E i \in 1..(Len(s) - Len(t) + 1) : SubSeq(s, i, i + Len(t) - 1) = t

\* first position >= i of s whose character is not in S
RECURSIVE SkipWhile(_, _, _)
SkipWhile(s, i, S) ==
    IF i <= Len(s) /\ At(s, i) \in S THEN SkipWhile(s, i + 1, S) ELSE i

\* \b between the characters i-1 and i of s
Boundary(s, i) == (At(s, i - 1) \in WordChars) # (At(s, i) \in WordChars)

\* the literal lit (lower case) at position i of s, ignoring case (flag i)
LitAt(s, i, lit) ==
    /\ i >= 1
    /\ i + Len(lit) - 1 <= Len(s)
    /\ toLowerCase(SubSeq(s, i, i + Len(lit) - 1)) = lit

\* \s+ at position i: the position after it, or 0
Ws1(s, i) ==
    IF i # 0 /\ At(s, i) \in Whitespace THEN SkipWhile(s, i, Whitespace) ELSE 0

\* a literal at position i: the position after it, or 0
Lit(s, i, lit) ==
    IF i # 0 /\ LitAt(s, i, lit) THEN i + Len(lit) ELSE 0

\* \s* after a match that ended before position e (0: no match)
Ws0(s, e) == IF e = 0 THEN 0 ELSE SkipWhile(s, e, Whitespace)

\* \w+ at position i: the position after it, or 0
Word1(s, i) ==
    IF i # 0 /\ At(s, i) \in WordChars THEN SkipWhile(s, i, WordChars) ELSE 0

\* \w* at position i: the position after it (0: no match before it)
Word0(s, i) == IF i = 0 THEN 0 ELSE SkipWhile(s, i, WordChars)

\* \d+ at position i: the position after it, or 0
Digits1(s, i) ==
    IF i # 0 /\ At(s, i) \in Digits THEN SkipWhile(s, i, Digits) ELSE 0

\* (most|newest|oldest) at position i: the position after it, or 0
MostNewestOldest(s, i) ==
    IF Lit(s, i, "most") # 0 THEN Lit(s, i, "most")
    ELSE IF Lit(s, i, "newest") # 0 THEN Lit(s, i, "newest")
    ELSE Lit(s, i, "oldest")

-----------------------------------------------------------------------------
(* The regular expressions of cleanLines and of the reply pre-filter.      *)
(* Each matcher gives, for a start position i, the position after the      *)
(* match, or 0 when the expression does not match at i.                    *)

\* (?:\s*\d+)? after a match that ended before position e
OptCount(s, e) ==
    IF Digits1(s, SkipWhile(s, e, Whitespace)) # 0
    THEN Digits1(s, SkipWhile(s, e, Whitespace)) ELSE e

\* /\bLike\b(?:\s*\d+)?/i
ReLike(s, i) ==
    IF Boundary(s, i) /\ LitAt(s, i, "like") /\ Boundary(s, i + 4)
    THEN OptCount(s, i + 4) ELSE 0

\* /\bReply\b/i
ReReply(s, i) ==
    IF Boundary(s, i) /\ LitAt(s, i, "reply") /\ Boundary(s, i + 5)
    THEN i + 5 ELSE 0

\* \d+\s+Repl at position i: the position after it, or 0
DigitsRepl(s, i) == Lit(s, Ws1(s, Digits1(s, i)), "repl")

\* (?:y|ies)?\b after "Repl" ended before position e: the alternatives are
\* tried in the order y, ies, nothing
SuffixThenBoundary(s, e) ==
    IF e = 0 THEN 0
    ELSE IF LitAt(s, e, "y") /\ Boundary(s, e + 1) THEN e + 1
    ELSE IF LitAt(s, e, "ies") /\ Boundary(s, e + 3) THEN e + 3
    ELSE IF Boundary(s, e) THEN e
    ELSE 0

\* /\b\d+\s+Repl(?:y|ies)?\b/i
ReCountInline(s, i) ==
    IF Boundary(s, i) THEN SuffixThenBoundary(s, DigitsRepl(s, i)) ELSE 0

\* (?:y|ies)?\s* after "Repl" ended before position e
SuffixThenSpaces(s, e) ==
    IF e = 0 THEN 0
    ELSE IF LitAt(s, e, "y") THEN SkipWhile(s, e + 1, Whitespace)
    ELSE IF LitAt(s, e, "ies") THEN SkipWhile(s, e + 3, Whitespace)
    ELSE SkipWhile(s, e, Whitespace)

\* /^\d+\s+Repl(?:y|ies)?\s*/i, which matches at position 1 only
ReCountLead(s, i) ==
    IF i = 1 THEN SuffixThenSpaces(s, DigitsRepl(s, i)) ELSE 0

\* s? after "Replie" ended before position r
OptS(s, r) == IF r # 0 /\ LitAt(s, r, "s") THEN r + 1 ELSE r

\* Replies?\s+sorted\s+by at position i: the position after it, or 0
RepliesSortedBy(s, i) ==
    Lit(s, Ws1(s, Lit(s, Ws1(s, OptS(s, Lit(s, i, "replie"))), "sorted")), "by")

\* Replies?\s+sorted\s+by\s+\w+ at position i: the position after it, or 0
RepliesSortedByWord(s, i) == Word1(s, Ws1(s, RepliesSortedBy(s, i)))

\* /\bReplies?\s+sorted\s+by\s+\w+/i
ReRepliesSortedInline(s, i) ==
    IF Boundary(s, i) THEN RepliesSortedByWord(s, i) ELSE 0

\* /Replies?\s+sorted\s+by\s+\w+\s*/i
ReRepliesSortedPre(s, i) == Ws0(s, RepliesSortedByWord(s, i))

\* sorted\s+by\s+(most|newest|oldest) at position i: the position after it, or 0
SortedByMost(s, i) ==
    MostNewestOldest(s, Ws1(s, Lit(s, Ws1(s, Lit(s, i, "sorted")), "by")))

\* sorted\s+by\s+(most|newest|oldest)\s+\w* at position i
SortedByMostWord(s, i) == Word0(s, Ws1(s, SortedByMost(s, i)))

\* /\bsorted\s+by\s+(most|newest|oldest)\s+\w*/i
ReSortedInline(s, i) ==
    IF Boundary(s, i) THEN SortedByMostWord(s, i) ELSE 0

\* /sorted\s+by\s+(most|newest|oldest)\s+\w*\s*/i
ReSortedPre(s, i) == Ws0(s, SortedByMostWord(s, i))

\* /\s{2,}/
ReSpaces(s, i) ==
    IF SkipWhile(s, i, Whitespace) >= i + 2 THEN SkipWhile(s, i, Whitespace) ELSE 0

\* /[\r\n\t]+/
ReBreaks(s, i) ==
    IF At(s, i) \in {"\r", "\n", "\t"} THEN SkipWhile(s, i, {"\r", "\n", "\t"}) ELSE 0

\* the regular expressions of the program by name: where the match of re that
\* starts at position i of s ends (the position after it), or 0
MatchEnd(re, s, i) ==
    CASE re = "ReLike" -> ReLike(s, i)
      [] re = "ReReply" -> ReReply(s, i)
      [] re = "ReCountInline" -> ReCountInline(s, i)
      [] re = "ReCountLead" -> ReCountLead(s, i)
      [] re = "ReRepliesSortedInline" -> ReRepliesSortedInline(s, i)
      [] re = "ReRepliesSortedPre" -> ReRepliesSortedPre(s, i)
      [] re = "ReSortedInline" -> ReSortedInline(s, i)
      [] re = "ReSortedPre" -> ReSortedPre(s, i)
      [] re = "ReSpaces" -> ReSpaces(s, i)
      [] re = "ReBreaks" -> ReBreaks(s, i)

\* for every position of s, where the match of re that starts there ends
Ends(re, s) == [i \in 1..Len(s) |-> MatchEnd(re, s, i)]

\* String.prototype.replace with a /g expression: the matches are found from
\* left to right in s itself, each search resuming after the previous match
RECURSIVE ReplaceFrom(_, _, _, _)
ReplaceFrom(ends, s, i, rep) ==
    IF i > Len(s) THEN ""
    ELSE IF ends[i] > i THEN rep \o ReplaceFrom(ends, s, ends[i], rep)
    ELSE At(s, i) \o ReplaceFrom(ends, s, i + 1, rep)

replaceAll(s, re, rep) == ReplaceFrom(Ends(re, s), s, 1, rep)

\* the least element of a non-empty set of numbers
Least(S) == CHOOSE k \in S : \A j \in S : k <= j

\* s with its leftmost match replaced by rep, s itself when there is none
ReplaceLeftmost(ends, s, rep) ==
    IF \E i \in DOMAIN ends : ends[i] > i
    THEN SubSeq(s, 1, Least({i \in DOMAIN ends : ends[i] > i}) - 1) \o rep
         \o SubSeq(s, ends[Least({i \in DOMAIN ends : ends[i] > i})], Len(s))
    ELSE s

\* String.prototype.replace with an expression without /g: the first match only
replaceFirst(s, re, rep) == ReplaceLeftmost(Ends(re, s), s, rep)

-----------------------------------------------------------------------------
(* Text cleanup utilities                                                  *)

\* s.replace(/[\r\n\t]+/g, ' ').replace(/\s{2,}/g, ' ').trim()
normalizeWhitespace(s) ==
    trim(replaceAll(replaceAll(s, "ReBreaks", " "), "ReSpaces", " "))

\* raw.split(/\r?\n/)
RECURSIVE SplitLines(_)
SplitLines(raw) ==
    LET nl == {i \in 1..Len(raw) : At(raw, i) = "\n"}
    IN  IF nl = {} THEN <<raw>>
        ELSE LET i == CHOOSE k \in nl : \A j \in nl : k <= j
                 e == IF At(raw, i - 1) = "\r" THEN i - 2 ELSE i - 1
             IN  <<SubSeq(raw, 1, e)>> \o SplitLines(SubSeq(raw, i + 1, Len(raw)))

\* raw.split(/\r?\n/).map((l) => l.trim()).filter(Boolean)
LinesOf(raw) ==
    LET NonEmpty(l) == l # ""
        parts == SplitLines(raw)
    IN  SelectSeq([k \in 1..Len(parts) |-> trim(parts[k])], NonEmpty)

RECURSIVE join(_, _)
join(lines, sep) ==
    IF lines = <<>> THEN ""
    ELSE IF Len(lines) = 1 THEN lines[1]
    ELSE lines[1] \o sep \o join(Tail(lines), sep)

forbidden ==
    {"tag", "like", "reply", "copy link", "follow", "report",
     "marked as solution", "solved"}

roleTokens == {"contributor", "ambassador", "support team"}

\* /^\d{1,4}$/
IsStrayCount(line) ==
    Len(line) \in 1..4 /\ \A i \in 1..Len(line) : At(line, i) \in Digits

\* /^(most|newest|oldest)\s+(liked|recent)/i
IsSortLabel(line) ==
    LET w == Ws1(line, MostNewestOldest(line, 1))
    IN  Lit(line, w, "liked") # 0 \/ Lit(line, w, "recent") # 0

\* the body of the for loop of cleanLines: TRUE when the line is skipped (continue)
SkippedLine(line, ctx) ==
    LET lower == toLowerCase(line)
    IN  \/ ctx.title # "" /\ line = ctx.title
        \/ ctx.author # "" /\ line = ctx.author
        \/ ctx.time # "" /\ line = ctx.time
        \/ lower \in forbidden
        \/ IsStrayCount(line)
        \/ \E t \in roleTokens : includes(lower, t)
        \/ DigitsRepl(line, 1) # 0
        \/ \E i \in 1..Len(line) : RepliesSortedBy(line, i) # 0
        \/ \E i \in 1..Len(line) : SortedByMost(line, i) # 0
        \/ IsSortLabel(line)

\* the replace chain of cleanLines applied to the joined lines
StripInline(out) ==
    replaceAll(
      replaceAll(
        replaceAll(
          replaceAll(
            replaceAll(
              replaceAll(out, "ReLike", " "),
              "ReReply", " "),
            "ReCountInline", " "),
          "ReRepliesSortedInline", " "),
        "ReSortedInline", " "),
      "ReSpaces", " ")

cleanLines(raw, ctx) ==
    LET Kept(line) == ~SkippedLine(line, ctx)
        cleaned == SelectSeq(LinesOf(raw), Kept)
    IN  normalizeWhitespace(StripInline(join(cleaned, " ")))

\* the characters of [A-Za-z0-9_\-] and of [\s,:-]
TokenChars == WordChars \cup {"-"}
SepChars == Whitespace \cup {",", ":", "-"}

blacklist == {"Hi", "Has", "I", "We", "Thanks", "Hey", "Hello"}

NoAuthor == "<undefined>"

\* content.match(/^([A-Za-z][A-Za-z0-9_\-]{2,})\b[\s,:-]+(.*)$/):
\* <<end of group 1, start of group 2>>, or <<0, 0>> when there is no match.
\* Group 1 is greedy: the longest candidate after which the rest matches.
AuthorMatch(content) ==
    LET run == SkipWhile(content, 2, TokenChars)
        Rest(e) == SubSeq(content, SkipWhile(content, e, SepChars), Len(content))
        ends == {e \in 4..run :
                    /\ Boundary(content, e)
                    /\ SkipWhile(content, e, SepChars) > e
                    /\ CharsOf(Rest(e)) \cap LineTerminators = {}}
    IN  IF content = "" \/ Head(content) \notin Letters \/ ends = {}
        THEN <<0, 0>>
        ELSE LET e == CHOOSE k \in ends : \A j \in ends : j <= k
             IN  <<e - 1, SkipWhile(content, e, SepChars)>>

\* extractAuthorFromContent without the blacklist test
extractAuthorFromContent_NoBlacklist(content) ==
    LET m == AuthorMatch(content)
        candidate == SubSeq(content, 1, m[1])
        rest == SubSeq(content, m[2], Len(content))
    IN  IF m[1] # 0
        THEN [author |-> candidate, content |-> trim(rest)]
        ELSE [author |-> NoAuthor, content |-> content]

\* the result for the match m of the pattern: group 1 is the candidate, group 2
\* the rest
AuthorResult(content, m) ==
    IF m[1] # 0 /\ SubSeq(content, 1, m[1]) \notin blacklist
    THEN [author |-> SubSeq(content, 1, m[1]),
          content |-> trim(SubSeq(content, m[2], Len(content)))]
    ELSE [author |-> NoAuthor, content |-> content]

extractAuthorFromContent(content) == AuthorResult(content, AuthorMatch(content))

\* if (inf.author) author = inf.author; if (inf.content) content = inf.content
ApplyInferred(author, cleaned, inf) ==
    [author |-> IF inf.author # NoAuthor THEN inf.author ELSE author,
     content |-> IF inf.content # "" THEN inf.content ELSE cleaned]

\* InferAuthor without the !author test: the content prefix is always examined
InferAuthor_Always(author, cleaned) ==
    IF cleaned # ""
    THEN ApplyInferred(author, cleaned, extractAuthorFromContent(cleaned))
    ELSE [author |-> author, content |-> cleaned]

\* the fallback of scrapeDiscussionDetail, for the main post and for each reply:
\* if (!author && cleaned) the author is inferred from the content prefix
InferAuthor(author, cleaned) ==
    IF author = "" /\ cleaned # ""
    THEN ApplyInferred(author, cleaned, extractAuthorFromContent(cleaned))
    ELSE [author |-> author, content |-> cleaned]

-----------------------------------------------------------------------------
(* Bounds of the model and constants of the program                        *)

MaxPages == 2          \* listing pages of the forum category
MaxHeight == 2         \* document.body.scrollHeight takes the values 1..MaxHeight
MaxControls == 1       \* reveal controls of each kind on a discussion page

LoadMoreLimit == 20    \* tryLoadMoreAndScroll: for (let i = 0; i < 20; i++)
ScrollLimit == 20      \* tryLoadMoreAndScroll: for (let i = 0; i < 20; i++)
RoundLimit == 50       \* expandAllContent: for (let round = 0; round < 50; round++)

-----------------------------------------------------------------------------
(* The listing pages as the Page Accessor shows them                       *)

PageURL(k) == "https://community/all-topics?page=" \o ToString(k)
ListingURLs == {PageURL(k) : k \in 1..MaxPages}
targetUrl == PageURL(1)

\* a next-page href that new URL() rejects with a TypeError
BadHref == "http://["

\* attribute values of the "Next" link: absent (Null), empty, an absolute
\* listing URL, or an unparsable one
Hrefs == {Null, "", BadHref} \cup ListingURLs

\* new URL(nextHref, current).toString() for the absolute hrefs above
ResolveURL(href, base) == href

\* li.PaneledItemList_lia-panel-list-item__bV87f elements: the title link (or
\* NoLink) and the text of the author, time and counter elements (or Null)
Item(link, author, time, views, likes, comments) ==
    [link |-> link, author |-> author, time |-> time,
     views |-> views, likes |-> likes, comments |-> comments]

Link(text, href) == [present |-> TRUE, text |-> text, href |-> href]
NoLink == [present |-> FALSE, text |-> "", href |-> ""]

\* what page.$$eval finds on a listing page at one moment: nothing; topics A
\* and B; B, C and an item without title link; C and A with other values and an
\* item whose link has no href
Renderings ==
    { <<>>,
      << Item(Link(" Topic A ", "https://community/d/A"), "ann", "1h", "12 views", "3", "2"),
         Item(Link("Topic B", "https://community/d/B"), Null, Null, Null, "n/a", Null) >>,
      << Item(Link("Topic B", "https://community/d/B"), Null, Null, Null, "n/a", Null),
         Item(Link("Topic C", "https://community/d/C"), "cy", "3d", "5", "0", "1"),
         Item(NoLink, "dan", "5d", "7", "7", "7") >>,
      << Item(Link("Topic C", "https://community/d/C"), "cy", "4d", "9", "1", "3"),
         Item(Link("Topic A (edited)", "https://community/d/A"), "ann", "2h", "1,204", "4", "7"),
         Item(Link("Pinned", ""), "eve", "6d", "8", "8", "8") >> }

RECURSIVE DigitsOnly(_)
\* text.replace(/\D/g, "")
DigitsOnly(s) ==
    IF s = "" THEN ""
    ELSE (IF Head(s) \in Digits THEN Head(s) ELSE "") \o DigitsOnly(Tail(s))

RECURSIVE parseInt(_)
\* parseInt of a non-empty string of decimal digits
parseInt(s) ==
    IF s = "" THEN 0
    ELSE 10 * parseInt(SubSeq(s, 1, Len(s) - 1))
         + ((CHOOSE k \in 1..10 : At(DigitStr, k) = At(s, Len(s))) - 1)

\* parseInt(el.querySelector(..)?.textContent?.replace(/\D/g, "") || "0")
CountOf(text) ==
    LET digits == IF text = Null THEN "" ELSE DigitsOnly(text)
    IN  parseInt(IF digits = "" THEN "0" ELSE digits)

\* the callback of page.$$eval in collectFromCurrentPage, for one element
SummaryOf(el) ==
    [title |-> IF el.link.present THEN trim(el.link.text) ELSE "",
     url |-> IF el.link.present THEN el.link.href ELSE "",
     author |-> IF el.author = Null THEN "" ELSE trim(el.author),
     time |-> IF el.time = Null THEN "" ELSE trim(el.time),
     views |-> CountOf(el.views),
     likes |-> CountOf(el.likes),
     comments |-> CountOf(el.comments)]

\* collected.has(url)
Has(store, url) == \E k \in 1..Len(store) : store[k].url = url

\* SetNew without the collected.has test: a later sighting replaces the entry
RECURSIVE SetNew_LastWins(_, _)
SetNew_LastWins(store, summaries) ==
    IF summaries = <<>> THEN store
    ELSE LET s == Head(summaries)
             put == IF s.url = "" THEN store
                    ELSE IF Has(store, s.url)
                    THEN [k \in 1..Len(store) |->
                             IF store[k].url = s.url THEN s ELSE store[k]]
                    ELSE Append(store, s)
         IN  SetNew_LastWins(put, Tail(summaries))

\* SetNew without the s.url test: a row without URL is stored under the key ""
RECURSIVE SetNew_KeepEmpty(_, _)
SetNew_KeepEmpty(store, summaries) ==
    IF summaries = <<>> THEN store
    ELSE LET s == Head(summaries)
         IN  SetNew_KeepEmpty(IF ~Has(store, s.url) THEN Append(store, s) ELSE store,
                              Tail(summaries))

\* for (const s of summaries) if (s.url && !collected.has(s.url)) collected.set(s.url, s)
RECURSIVE SetNew(_, _)
SetNew(store, summaries) ==
    IF summaries = <<>> THEN store
    ELSE LET s == Head(summaries)
         IN  SetNew(IF s.url # "" /\ ~Has(store, s.url) THEN Append(store, s) ELSE store,
                    Tail(summaries))

\* the summaries of each rendering of the model, computed once
SummariesOf == [r \in Renderings |-> [k \in 1..Len(r) |-> SummaryOf(r[k])]]

\* collectFromCurrentPage: the store after extracting the rendered rows
collectFromCurrentPage(store, items) == SetNew(store, SummariesOf[items])

-----------------------------------------------------------------------------
(* History: the first sighting of every URL, in the order of the sightings *)

URLsOf(store) == [k \in 1..Len(store) |-> store[k].url]

RECURSIVE Ascending(_)
\* the elements of a finite set of numbers in increasing order
Ascending(S) ==
    IF S = {} THEN <<>>
    ELSE LET m == CHOOSE x \in S : \A y \in S : x <= y
         IN  <<m>> \o Ascending(S \ {m})

\* the sightings so far, extended by the rows of one extraction: a row is a
\* first sighting when its URL is non-empty and occurs neither among the earlier
\* sightings nor in an earlier row of this extraction
Sighted(seen, items) ==
    LET sums == SummariesOf[items]
        first == {k \in 1..Len(sums) :
                    /\ sums[k].url # ""
                    /\ \A j \in 1..Len(seen) : seen[j].url # sums[k].url
                    /\ \A j \in 1..(k - 1) : sums[j].url # sums[k].url}
        order == Ascending(first)
    IN  seen \o [k \in 1..Len(order) |-> sums[order[k]]]

-----------------------------------------------------------------------------
(* main and the List Crawler                                               *)

\* gotos: the listing URLs handed to page.goto by the while loop, in order;
\* fatal: the call whose rejection ended the process ("none" while it runs);
\* firstSeen: the first sighting of every URL by collectFromCurrentPage;
\* rendered: the first rendering of every URL on a visited listing page;
\* grew: the scroll step just taken saw document.body.scrollHeight increase;
\* attempts: the URLs handed to scrapeDiscussionDetail; failed: the URLs whose
\* extraction threw; steps: the calls the current extraction has completed; acts, rounds: activations and rounds of the current
\* expandAllContent call; acts1: the first call clicked something; vis2: controls
\* visible when the second call began (-1 before it); between: the bulk scroll
\* between the two calls surfaced a control; pace: the delays of the driver, in
\* ms, since the last page.goto of scrapeDiscussionDetail
InitHist ==
    [gotos |-> <<>>, fatal |-> "none", firstSeen |-> <<>>, rendered |-> <<>>, grew |-> FALSE,
     attempts |-> <<>>,
     failed |-> {}, steps |-> <<>>, acts |-> 0, rounds |-> 0, acts1 |-> FALSE, vis2 |-> -1, between |-> FALSE,
     pace |-> <<>>]

\* the history of one extraction, cleared when the extraction ends
ClearPass(h) ==
    [h EXCEPT !.steps = <<>>, !.acts = 0, !.rounds = 0, !.acts1 = FALSE, !.vis2 = -1, !.between = FALSE]

NoText == [fn |-> "none", done |-> FALSE]

NotWritten == [written |-> FALSE, data |-> <<>>]

NoControls == [visible |-> 0, sticky |-> 0, hidden |-> 0]

\* the state after construction, with the control flow at position p
Idle(p) ==
    /\ pc = p
    /\ current = targetUrl
    /\ visitedPages = {}
    /\ collected = <<>>
    /\ dom = <<>>
    /\ lmVisible = FALSE
    /\ lmI = 0
    /\ scI = 0
    /\ idx = 0
    /\ allDetails = <<>>
    /\ output = NotWritten
    /\ round = 0
    /\ ctl = NoControls
    /\ hist = InitHist

Init == Idle("main") /\ txt = NoText

\* main: page.goto(targetUrl), the sign-in pause, then scrapeDiscussionList;
\* a rejected goto ends the process
MainGoto ==
    /\ pc = "main"
    /\ \E ok \in BOOLEAN :
         IF ok
         THEN pc' = "list_head" /\ hist' = hist
         ELSE pc' = "aborted" /\ hist' = [hist EXCEPT !.fatal = "main: page.goto"]
    /\ UNCHANGED <<current, visitedPages, collected, dom, lmVisible, lmI, scI, idx,
                   allDetails, output, round, ctl, txt>>

\* ListGoto without the visitedPages.has(current) test
ListGoto_NoGuard ==
    /\ pc = "list_head"
    /\ current # Null
    /\ \E ok \in BOOLEAN, r \in Renderings, v \in BOOLEAN :
         IF ok
         THEN /\ visitedPages' = visitedPages \cup {current}
              /\ dom' = r
              /\ lmVisible' = v
              /\ hist' = [hist EXCEPT !.gotos = Append(@, current),
                                      !.rendered = Sighted(@, r)]
              /\ pc' = "list_wait"
         ELSE /\ pc' = "aborted"
              /\ hist' = [hist EXCEPT !.gotos = Append(@, current),
                                      !.fatal = "page.goto"]
              /\ UNCHANGED <<visitedPages, dom, lmVisible>>
    /\ UNCHANGED <<current, collected, lmI, scI, idx, allDetails, output, round,
                   ctl, txt>>

\* while (current) { if (visitedPages.has(current)) break; await page.goto(current);
\* visitedPages.add(current); a goto that rejects is not caught
ListGoto ==
    /\ pc = "list_head"
    /\ current # Null
    /\ current \notin visitedPages
    /\ \E ok \in BOOLEAN, r \in Renderings, v \in BOOLEAN :
         IF ok
         THEN /\ visitedPages' = visitedPages \cup {current}
              /\ dom' = r
              /\ lmVisible' = v
              /\ hist' = [hist EXCEPT !.gotos = Append(@, current),
                                      !.rendered = Sighted(@, r)]
              /\ pc' = "list_wait"
         ELSE /\ pc' = "aborted"
              /\ hist' = [hist EXCEPT !.gotos = Append(@, current),
                                      !.fatal = "page.goto"]
              /\ UNCHANGED <<visitedPages, dom, lmVisible>>
    /\ UNCHANGED <<current, collected, lmI, scI, idx, allDetails, output, round,
                   ctl, txt>>

\* ListWaitCollect without the .catch(() => {}): the timeout of waitForSelector
\* on a page without list items rejects the crawl
ListWaitCollect_NoCatch ==
    /\ pc = "list_wait"
    /\ IF dom = <<>>
       THEN /\ pc' = "aborted"
            /\ hist' = [hist EXCEPT !.fatal = "page.waitForSelector"]
            /\ UNCHANGED <<collected, lmI>>
       ELSE /\ collected' = collectFromCurrentPage(collected, dom)
            /\ hist' = [hist EXCEPT !.firstSeen = Sighted(@, dom)]
            /\ lmI' = 0
            /\ pc' = "list_more"
    /\ UNCHANGED <<current, visitedPages, dom, lmVisible, scI, idx, allDetails,
                   output, round, ctl, txt>>

\* waitForSelector(list item, 15 s).catch(() => {}): on a page without list
\* items the wait times out and the rejection is dropped; then the first
\* collectFromCurrentPage
ListWaitCollect ==
    /\ pc = "list_wait"
    /\ collected' = collectFromCurrentPage(collected, dom)
    /\ hist' = [hist EXCEPT !.firstSeen = Sighted(@, dom)]
    /\ lmI' = 0
    /\ pc' = "list_more"
    /\ UNCHANGED <<current, visitedPages, dom, lmVisible, scI, idx, allDetails,
                   output, round, ctl, txt>>

\* LoadMoreStep without the bound of the for loop
LoadMoreStep_Unbounded ==
    /\ pc = "list_more"
    /\ lmVisible
    /\ \E r \in Renderings, v \in BOOLEAN :
         /\ dom' = r
         /\ lmVisible' = v
         /\ collected' = collectFromCurrentPage(collected, r)
         /\ hist' = [hist EXCEPT !.firstSeen = Sighted(@, r),
                                 !.rendered = Sighted(@, r)]
    /\ lmI' = lmI + 1
    /\ UNCHANGED <<pc, current, visitedPages, scI, idx, allDetails, output, round,
                   ctl, txt>>

\* one iteration of the load-more loop: click, delay, collectFromCurrentPage
LoadMoreStep ==
    /\ pc = "list_more"
    /\ lmI < LoadMoreLimit
    /\ lmVisible
    /\ \E r \in Renderings, v \in BOOLEAN :
         /\ dom' = r
         /\ lmVisible' = v
         /\ collected' = collectFromCurrentPage(collected, r)
         /\ hist' = [hist EXCEPT !.firstSeen = Sighted(@, r),
                                 !.rendered = Sighted(@, r)]
    /\ lmI' = lmI + 1
    /\ UNCHANGED <<pc, current, visitedPages, scI, idx, allDetails, output, round,
                   ctl, txt>>

\* the load-more loop ends: no control visible (break) or 20 iterations done
LoadMoreEnd ==
    /\ pc = "list_more"
    /\ lmI >= LoadMoreLimit \/ ~lmVisible
    /\ lmI' = 0
    /\ scI' = 0
    /\ pc' = "list_scroll"
    /\ UNCHANGED <<current, visitedPages, collected, dom, lmVisible, idx,
                   allDetails, output, round, ctl, hist, txt>>

\* ScrollStep without the collectFromCurrentPage after the scroll
ScrollStep_NoCollect ==
    /\ pc = "list_scroll"
    /\ scI < ScrollLimit
    /\ \E prev \in 1..MaxHeight, next \in 1..MaxHeight, r \in Renderings :
         /\ dom' = r
         /\ hist' = [hist EXCEPT !.rendered = Sighted(@, r), !.grew = next > prev]
         /\ IF next <= prev
            THEN pc' = "list_next" /\ scI' = 0
            ELSE pc' = pc /\ scI' = scI + 1
    /\ UNCHANGED <<current, visitedPages, collected, lmVisible, lmI, idx, allDetails,
                   output, round, ctl, txt>>

\* one iteration of the scroll loop: read the height, wheel, delay, read the
\* height, collectFromCurrentPage, break when the height did not grow
ScrollStep ==
    /\ pc = "list_scroll"
    /\ scI < ScrollLimit
    /\ \E prev \in 1..MaxHeight, next \in 1..MaxHeight, r \in Renderings :
         /\ dom' = r
         /\ collected' = collectFromCurrentPage(collected, r)
         /\ hist' = [hist EXCEPT !.firstSeen = Sighted(@, r),
                                 !.rendered = Sighted(@, r),
                                 !.grew = next > prev]
         /\ IF next <= prev
            THEN pc' = "list_next" /\ scI' = 0
            ELSE pc' = pc /\ scI' = scI + 1
    /\ UNCHANGED <<current, visitedPages, lmVisible, lmI, idx, allDetails, output,
                   round, ctl, txt>>

\* the scroll loop ends after 20 iterations
ScrollEnd ==
    /\ pc = "list_scroll"
    /\ scI >= ScrollLimit
    /\ scI' = 0
    /\ hist' = [hist EXCEPT !.grew = FALSE]
    /\ pc' = "list_next"
    /\ UNCHANGED <<current, visitedPages, collected, dom, lmVisible, lmI, idx,
                   allDetails, output, round, ctl, txt>>

\* the "Next" link: getAttribute('href').catch(() => null), then
\* current = nextHref ? new URL(nextHref, current).toString() : null
FindNext ==
    /\ pc = "list_next"
    /\ \E nextHref \in Hrefs :
         IF nextHref \in {Null, ""}
         THEN current' = Null /\ pc' = "list_head" /\ hist' = hist
         ELSE IF nextHref = BadHref
         THEN /\ current' = current
              /\ pc' = "aborted"
              /\ hist' = [hist EXCEPT !.fatal = "new URL"]
         ELSE current' = ResolveURL(nextHref, current) /\ pc' = "list_head" /\ hist' = hist
    /\ UNCHANGED <<visitedPages, collected, dom, lmVisible, lmI, scI, idx,
                   allDetails, output, round, ctl, txt>>

\* ListEnd leaving the while loop although a page is still to be visited
ListEnd_Early ==
    /\ pc = "list_head"
    /\ idx' = 1
    /\ pc' = "drv_head"
    /\ UNCHANGED <<current, visitedPages, collected, dom, lmVisible, lmI, scI,
                   allDetails, output, round, ctl, hist, txt>>

\* the while loop ends: current is null, or the cycle guard breaks
ListEnd ==
    /\ pc = "list_head"
    /\ current = Null \/ current \in visitedPages
    /\ idx' = 1
    /\ pc' = "drv_head"
    /\ UNCHANGED <<current, visitedPages, collected, dom, lmVisible, lmI, scI,
                   allDetails, output, round, ctl, hist, txt>>

-----------------------------------------------------------------------------
(* The discussion pages as the Page Accessor shows them                    *)

\* a message container matched by a reply selector: the text of its author,
\* time, role and like elements (Null when the element is missing), the
\* innerText of its body container (Null when there is none) and its own innerText
Message(author, time, role, body, innerText, likeText) ==
    [author |-> author, time |-> time, role |-> role, body |-> body,
     innerText |-> innerText, likeText |-> likeText]

MsgMain == Message("ann", "1h", "Valued Contributor", "How do I sync?", "How do I sync?", "4")
MsgBob == Message(" bob ", "2h", Null, "Like\n2\nTotally agree\nReply", "", "2 likes")
MsgZed == Message(Null, "3h", Null, "zed: works for me", "", Null)
MsgNoise == Message(Null, Null, Null, Null, "Like\n0\nReply\n", Null)
MsgSort == Message(Null, "4h", Null, Null, "2 Replies sorted by Newest first\nHello all", "1")

\* the outcome of page.$$eval for one reply selector: it throws, or it finds
\* these elements
Found(els) == [throws |-> FALSE, els |-> els]
Throws == [throws |-> TRUE, els |-> <<>>]

\* the fields of a discussion page: the text of the first title, author, time
\* and role element (Null when there is none and the read times out), the
\* innerText of the body container (Null when there is none), the text of the
\* first element matching
\* /\d+\s+Repl/i (Null when the locator fails), document.body.textContent
\* (Null when page.evaluate fails), the number of "views" icons, and the
\* outcomes of the five reply selectors in the order of replySelectors
DetailPage(title, author, time, role, body, label, bodyText, views, outcomes) ==
    [title |-> title, author |-> author, time |-> time, role |-> role,
     body |-> body, label |-> label, bodyText |-> bodyText, views |-> views,
     outcomes |-> outcomes]

PageSync ==
    DetailPage(" How do I sync? ", "ann", "1h", " Valued\n Contributor ",
               "How do I sync?\nann\n1h\nValued Contributor\nI like the new calendar\nLike\n3",
               "1 Reply", Null, 2,
               <<Found(<<MsgMain, MsgBob, MsgNoise, MsgZed>>), Found(<<MsgMain, MsgSort>>),
                 Found(<<>>), Found(<<>>), Found(<<MsgMain, MsgZed>>)>>)

PageNews ==
    DetailPage(Null, Null, Null, Null,
               "carl - any news?\n23 Replies\nReplies sorted by Most Liked",
               "23 Replies", Null, 0,
               <<Found(<<MsgMain>>), Throws, Found(<<MsgMain, MsgSort, MsgBob>>),
                 Found(<<>>), Found(<<MsgMain, MsgBob>>)>>)

PageQuiet ==
    DetailPage("Sync", Null, "1h", "", Null, Null, "Sync 0 comments", 1,
               <<Throws, Found(<<MsgMain, MsgNoise>>), Found(<<>>), Found(<<MsgMain>>), Throws>>)

PageBare ==
    DetailPage("Sync", "dee", Null, Null, "Thanks, all good", Null, Null, 0,
               <<Found(<<>>), Found(<<MsgMain, MsgZed, MsgNoise, MsgBob>>), Found(<<>>),
                 Found(<<>>), Found(<<>>)>>)

DetailPages == {PageSync, PageNews, PageQuiet, PageBare}

-----------------------------------------------------------------------------
(* The Detail Extractor after the page has been expanded                   *)

\* the pre-filter of the callback: the three content.replace calls
PreFilter(content) ==
    replaceAll(replaceAll(replaceFirst(content, "ReCountLead", ""), "ReRepliesSortedPre", ""),
               "ReSortedPre", "")

\* the callback of page.$$eval in the reply loop, for one element
RawReplyOf(el) ==
    [author |-> IF el.author = Null THEN "" ELSE trim(el.author),
     role |-> IF el.role = Null THEN "" ELSE trim(el.role),
     time |-> IF el.time = Null THEN "" ELSE trim(el.time),
     content |-> PreFilter(IF el.body # Null THEN trim(el.body) ELSE trim(el.innerText)),
     likes |-> CountOf(el.likeText)]

\* elements.slice(1).map(callback)
SliceMap(els) == [k \in 1..(Len(els) - 1) |-> RawReplyOf(els[k + 1])]

\* for (const selector of replySelectors) { try { repliesRaw = await page.$$eval(..);
\* if (repliesRaw.length > 0) break; } catch (err) {} }
RECURSIVE RepliesRawFrom(_, _)
RepliesRawFrom(outcomes, k) ==
    IF k > Len(outcomes) THEN <<>>
    ELSE IF ~outcomes[k].throws /\ Len(outcomes[k].els) > 1
    THEN SliceMap(outcomes[k].els)
    ELSE RepliesRawFrom(outcomes, k + 1)

\* the first run of digits of t: t.match(/(\d+)/), parsed; Undefined without one
FirstNumber(t) ==
    LET starts == {i \in 1..Len(t) : At(t, i) \in Digits}
    IN  IF starts = {} THEN Undefined
        ELSE LET i == CHOOSE k \in starts : \A j \in starts : k <= j
             IN  parseInt(SubSeq(t, i, SkipWhile(t, i, Digits) - 1))

\* text.match(/(\d+)\s+<word>/i): the number of the leftmost match, or Undefined
NumberBefore(text, word) ==
    LET Hit(i) == LET d == SkipWhile(text, i, Digits)
                  IN  d > i /\ Lit(text, Ws1(text, d), word) # 0
        starts == {i \in 1..Len(text) : Hit(i)}
    IN  IF starts = {} THEN Undefined
        ELSE LET i == CHOOSE k \in starts : \A j \in starts : k <= j
             IN  parseInt(SubSeq(text, i, SkipWhile(text, i, Digits) - 1))

\* text.match(/<word>.*?(\d+)/i): the number of the leftmost match, or Undefined
NumberAfter(text, word) ==
    LET DigitAfter(i) ==
            LET e == SkipWhile(text, i + Len(word), (CharsOf(text) \ Digits) \ LineTerminators)
            IN  IF At(text, e) \in Digits THEN e ELSE 0
        starts == {i \in 1..Len(text) : LitAt(text, i, word) /\ DigitAfter(i) # 0}
    IN  IF starts = {} THEN Undefined
        ELSE LET i == CHOOSE k \in starts : \A j \in starts : k <= j
                 d == DigitAfter(i)
             IN  parseInt(SubSeq(text, d, SkipWhile(text, d, Digits) - 1))

\* for (const pattern of patterns) { if (match) return parseInt(match[1], 10) }
FirstDefined(a, b, c, d) ==
    IF a # Undefined THEN a
    ELSE IF b # Undefined THEN b
    ELSE IF c # Undefined THEN c
    ELSE d

\* the fallback of expectedReplies over document.body.textContent
FallbackCount(text) ==
    FirstDefined(NumberBefore(text, "repl"), NumberAfter(text, "repl"),
                 NumberBefore(text, "comment"), NumberAfter(text, "comment"))

\* expectedReplies: the number of the "<n> Repl.." label, else the fallback,
\* else undefined
expectedReplies(page) ==
    IF page.label # Null THEN FirstNumber(page.label)
    ELSE IF page.bodyText # Null THEN FallbackCount(page.bodyText)
    ELSE Undefined

\* the callback of repliesRaw.map: clean the content, infer a missing author
ReplyOf(r, inferred) ==
    [author |-> inferred.author, time |-> r.time, content |-> inferred.content,
     likes |-> r.likes]

\* the callback of repliesRaw.map: clean the content, infer a missing author
CleanReply(r) ==
    ReplyOf(r, InferAuthor(trim(r.author),
                           cleanLines(r.content, [title |-> "", author |-> r.author,
                                                  time |-> r.time])))

\* NotEmptyReply that keeps every candidate
NotEmptyReply_KeepAll(r) == TRUE

\* the predicate of .filter: drop empties
NotEmptyReply(r) == trim(r.author) # "" \/ trim(r.content) # ""

\* replies: repliesRaw.map(..).filter(..)
CleanReplies(repliesRaw) ==
    SelectSeq([k \in 1..Len(repliesRaw) |-> CleanReply(repliesRaw[k])], NotEmptyReply)

\* replies.slice(0, n)
Slice0(seq, n) == SubSeq(seq, 1, IF n < Len(seq) THEN n ELSE Len(seq))

\* limitedReplies cutting one entry too late
limitedReplies_OffByOne(replies, expected) ==
    IF expected # Undefined /\ expected >= 0 THEN Slice0(replies, expected + 1) ELSE replies

\* limitedReplies
limitedReplies(replies, expected) ==
    IF expected # Undefined /\ expected >= 0 THEN Slice0(replies, expected) ELSE replies

\* a field read whose rejection is not caught: the absent element comes through
OrEmpty_NoCatch(t) == t

\* locator(..).first().textContent().catch(() => ""), and body ? body.innerText.trim() : ""
OrEmpty(t) == IF t = Null THEN "" ELSE t

\* the record scrapeDiscussionDetail returns, given the main post after
\* cleaning and author inference and the reconciled replies
DetailRecord(url, page, main, limited) ==
    [title |-> trim(OrEmpty(page.title)),
     url |-> url,
     author |-> main.author,
     authorRole |-> normalizeWhitespace(OrEmpty(page.role)),
     time |-> trim(OrEmpty(page.time)),
     content |-> trim(main.content),
     views |-> page.views,
     likes |-> 0,
     comments |-> Len(limited),
     replies |-> limited]

\* scrapeDiscussionDetail from the first field read to the return
DetailOf(url, page) ==
    DetailRecord(url, page,
                 InferAuthor(trim(OrEmpty(page.author)),
                             cleanLines(OrEmpty(page.body),
                                        [title |-> trim(OrEmpty(page.title)),
                                         author |-> trim(OrEmpty(page.author)),
                                         time |-> trim(OrEmpty(page.time))])),
                 limitedReplies(CleanReplies(RepliesRawFrom(page.outcomes, 1)),
                                expectedReplies(page)))

-----------------------------------------------------------------------------
(* The Pipeline Driver, scrapeDiscussionDetail and the Content Revealer    *)

\* reveal controls of a discussion page: visible ones that disappear when
\* clicked, one that stays whatever is clicked (the click fails, or reveals
\* nothing), and ones not visible yet, which a click or a scroll may surface
ControlStates ==
    {c \in [visible : 0..MaxControls, sticky : {0, 1}, hidden : 0..MaxControls] :
        c.sticky > 0 => c.visible = 0 /\ c.hidden = 0}

\* the record scrapeDiscussionDetail returns for each page of the model (url
\* aside), computed once
Extracted == [page \in DetailPages |-> DetailOf("", page)]

\* DrvNext calling scrapeDiscussionDetail at once, without the delay
DrvNext_NoDelay ==
    /\ pc = "drv_head"
    /\ idx <= Len(collected)
    /\ hist' = [hist EXCEPT !.attempts = Append(@, collected[idx].url)]
    /\ pc' = "det_goto"
    /\ UNCHANGED <<current, visitedPages, collected, dom, lmVisible, lmI, scI, idx,
                   allDetails, output, round, ctl, txt>>

\* for (const d of collected.values()) { await delay(Math.random() * 3000 + 1000);
\* try { scrapeDiscussionDetail(page, d.url); Math.random() in thousandths
DrvNext ==
    /\ pc = "drv_head"
    /\ idx <= Len(collected)
    /\ \E random \in {0, 500, 999} :
          hist' = [hist EXCEPT !.attempts = Append(@, collected[idx].url),
                               !.pace = Append(@, (random * 3000) \div 1000 + 1000)]
    /\ pc' = "det_goto"
    /\ UNCHANGED <<current, visitedPages, collected, dom, lmVisible, lmI, scI, idx,
                   allDetails, output, round, ctl, txt>>

\* scrapeDiscussionDetail: page.goto(url), delay
DetGoto ==
    /\ pc = "det_goto"
    /\ \E ok \in BOOLEAN, c \in ControlStates :
         IF ok
         THEN /\ pc' = "det_wait"
              /\ ctl' = c
              /\ hist' = [hist EXCEPT !.steps = Append(@, "page.goto"), !.pace = <<>>]
         ELSE pc' = "drv_catch" /\ ctl' = ctl /\ hist' = [hist EXCEPT !.pace = <<>>]
    /\ dom' = <<>>
    /\ lmVisible' = FALSE
    /\ UNCHANGED <<current, visitedPages, collected, lmI, scI, idx, allDetails,
                   output, round, txt>>

\* page.waitForSelector("article, [data-testid='MessageSubject']", { timeout: 15000 })
DetWait ==
    /\ pc = "det_wait"
    /\ \E appeared \in BOOLEAN :
         IF appeared
         THEN /\ pc' = "det_expand1"
              /\ hist' = [hist EXCEPT !.steps = Append(@, "page.waitForSelector")]
         ELSE pc' = "drv_catch" /\ hist' = hist
    /\ round' = 0
    /\ UNCHANGED <<current, visitedPages, collected, dom, lmVisible, lmI, scI, idx,
                   allDetails, output, ctl, txt>>

\* AfterExpand going from the first pass straight to the field reads
AfterExpand_SkipSecond(p) == "det_read"

\* where expandAllContent returns to: the bulk scroll after the first call,
\* the field reads after the second
AfterExpand(p) == IF p = "det_expand1" THEN "det_scroll" ELSE "det_read"

\* the controls clicked in one round: if (await el.isVisible().catch(() => false)) click
Clicks(c) == c.visible + c.sticky

\* ClickedAny set for every located control, visible or not
ClickedAny_CountsHidden(c) == c.visible + c.sticky + c.hidden > 0

\* clickedAny at the end of a round
ClickedAny(c) == Clicks(c) > 0

\* one round of expandAllContent: every visible control is clicked (a failing
\* click is ignored), then a wheel scroll; the loop breaks when nothing was clicked
ExpandRound ==
    /\ pc \in {"det_expand1", "det_expand2"}
    /\ round < RoundLimit
    /\ LET clicks == Clicks(ctl)
           clickedAny == ClickedAny(ctl)
       IN  /\ \E k \in 0..ctl.hidden :
                ctl' = [ctl EXCEPT !.visible = k, !.hidden = @ - k]
           /\ hist' = [hist EXCEPT !.acts = @ + clicks, !.rounds = @ + 1,
                                   !.steps = IF clickedAny THEN @
                                             ELSE Append(@, "expandAllContent")]
           /\ IF clickedAny
              THEN pc' = pc /\ round' = round + 1
              ELSE pc' = AfterExpand(pc) /\ round' = 0
    /\ UNCHANGED <<current, visitedPages, collected, dom, lmVisible, lmI, scI, idx,
                   allDetails, output, txt>>

\* ExpandEnd treating the exhausted round budget as a failure
ExpandEnd_Throws ==
    /\ pc \in {"det_expand1", "det_expand2"}
    /\ round >= RoundLimit
    /\ round' = 0
    /\ pc' = "drv_catch"
    /\ hist' = [hist EXCEPT !.steps = Append(@, "expandAllContent")]
    /\ UNCHANGED <<current, visitedPages, collected, dom, lmVisible, lmI, scI, idx,
                   allDetails, output, ctl, txt>>

\* expandAllContent returns after 50 rounds
ExpandEnd ==
    /\ pc \in {"det_expand1", "det_expand2"}
    /\ round >= RoundLimit
    /\ round' = 0
    /\ pc' = AfterExpand(pc)
    /\ hist' = [hist EXCEPT !.steps = Append(@, "expandAllContent")]
    /\ UNCHANGED <<current, visitedPages, collected, dom, lmVisible, lmI, scI, idx,
                   allDetails, output, ctl, txt>>

\* page.evaluate: ten full-height scroll jumps; then the second expandAllContent begins
DetScroll ==
    /\ pc = "det_scroll"
    /\ \E ok \in BOOLEAN, k \in 0..ctl.hidden :
         IF ok
         THEN /\ ctl' = [ctl EXCEPT !.visible = @ + k, !.hidden = @ - k]
              /\ hist' = [hist EXCEPT !.steps = Append(@, "page.evaluate"),
                                      !.acts = 0, !.rounds = 0, !.acts1 = hist.acts > 0,
                                      !.between = k > 0,
                                      !.vis2 = ctl.visible + k + ctl.sticky]
              /\ pc' = "det_expand2"
         ELSE pc' = "drv_catch" /\ UNCHANGED <<ctl, hist>>
    /\ UNCHANGED <<current, visitedPages, collected, dom, lmVisible, lmI, scI, idx,
                   allDetails, output, round, txt>>

\* Overwrite taking the comments of the listing page as well
Overwrite_WithComments(fullDetail, d) ==
    [fullDetail EXCEPT !.views = d.views, !.likes = d.likes, !.comments = d.comments]

\* Overwrite left out: the record keeps the counters of the detail page
Overwrite_KeepDetail(fullDetail, d) == fullDetail

\* fullDetail.views = d.views; fullDetail.likes = d.likes
Overwrite(fullDetail, d) == [fullDetail EXCEPT !.views = d.views, !.likes = d.likes]

\* Push adding at the front
Push_Front(details, fullDetail) == <<fullDetail>> \o details

\* allDetails.push(fullDetail)
Push(details, fullDetail) == Append(details, fullDetail)

\* the field reads, the cleanup and the reconciliation of scrapeDiscussionDetail,
\* then in the driver: fullDetail.views = d.views; fullDetail.likes = d.likes;
\* allDetails.push(fullDetail)
DetRead ==
    /\ pc = "det_read"
    /\ \E ok \in BOOLEAN, page \in DetailPages :
         IF ok
         THEN LET d == collected[idx]
                  fullDetail == [Extracted[page] EXCEPT !.url = d.url]
              IN  /\ allDetails' = Push(allDetails, Overwrite(fullDetail, d))
                  /\ idx' = idx + 1
                  /\ pc' = "drv_head"
         ELSE pc' = "drv_catch" /\ UNCHANGED <<allDetails, idx>>
    /\ hist' = ClearPass(hist)
    /\ ctl' = NoControls
    /\ UNCHANGED <<current, visitedPages, collected, dom, lmVisible, lmI, scI,
                   output, round, txt>>

\* DrvCatch leaving the for loop after the first failure
DrvCatch_Break ==
    /\ pc = "drv_catch"
    /\ hist' = [ClearPass(hist) EXCEPT !.failed = @ \cup {collected[idx].url},
                                       !.pace = Append(@, 5000)]
    /\ round' = 0
    /\ ctl' = NoControls
    /\ pc' = "write"
    /\ UNCHANGED <<current, visitedPages, collected, dom, lmVisible, lmI, scI, idx,
                   allDetails, output, txt>>

\* catch (err) { console.error(..); await delay(5000); }
DrvCatch ==
    /\ pc = "drv_catch"
    /\ hist' = [ClearPass(hist) EXCEPT !.failed = @ \cup {collected[idx].url},
                                       !.pace = Append(@, 5000)]
    /\ idx' = idx + 1
    /\ round' = 0
    /\ ctl' = NoControls
    /\ pc' = "drv_head"
    /\ UNCHANGED <<current, visitedPages, collected, dom, lmVisible, lmI, scI,
                   allDetails, output, txt>>

\* the for loop ends: return allDetails
DrvEnd ==
    /\ pc = "drv_head"
    /\ idx > Len(collected)
    /\ pc' = "write"
    /\ UNCHANGED <<current, visitedPages, collected, dom, lmVisible, lmI, scI, idx,
                   allDetails, output, round, ctl, hist, txt>>

\* MainWrite saving the records so far at every turn of the driver loop as well
MainWrite_Partial ==
    /\ pc \in {"write", "drv_head"}
    /\ output' = [written |-> TRUE, data |-> allDetails]
    /\ pc' = IF pc = "write" THEN "done" ELSE pc
    /\ UNCHANGED <<current, visitedPages, collected, dom, lmVisible, lmI, scI, idx,
                   allDetails, round, ctl, hist, txt>>

\* main: fs.writeFileSync("online_booking_full.json", JSON.stringify(allData))
MainWrite ==
    /\ pc = "write"
    /\ output' = [written |-> TRUE, data |-> allDetails]
    /\ pc' = "done"
    /\ UNCHANGED <<current, visitedPages, collected, dom, lmVisible, lmI, scI, idx,
                   allDetails, round, ctl, hist, txt>>

\* main up to the end of the pagination loop of scrapeDiscussionList
Crawl ==
    \/ MainGoto \/ ListGoto \/ ListWaitCollect \/ LoadMoreStep \/ LoadMoreEnd
    \/ ScrollStep \/ ScrollEnd \/ FindNext \/ ListEnd

Next ==
    \/ Crawl
    \/ DrvNext \/ DetGoto \/ DetWait \/ ExpandRound \/ ExpandEnd \/ DetScroll
    \/ DetRead \/ DrvCatch \/ DrvEnd \/ MainWrite

Spec == Init /\ [][Next]_vars

\* the listing crawl on its own. Every step is an await on a call that settles
\* (navigation, selector wait and click have timeouts; delays are finite): the
\* crawl does not stop while a step is possible
SpecCrawl == Init /\ [][Crawl]_vars /\ WF_vars(Crawl)

-----------------------------------------------------------------------------
(* The text utilities on their own: cleanLines and extractAuthorFromContent *)
(* applied to inputs drawn from bounded sets                               *)

MaxLines == 3          \* lines of a raw text handed to cleanLines

BodyLines == {"Great tip", "I like it", "Works now"}

\* the noise of the claim: a noise-vocabulary word, a reply count, a sort order
WidgetLines == {"Like", " reply ", "23 Replies", "Replies sorted by Most Liked"}

\* other lines the line filter is about
OtherLines == {"2", "Valued Contributor", "Ask the support", "team on Monday"}

SeqsUpTo(S, n) == UNION {[1..k -> S] : k \in 0..n}

NoCtx == [title |-> "", author |-> "", time |-> ""]

CleanInputs ==
    {[fn |-> "cleanLines", lines |-> l, eol |-> e, done |-> FALSE, out |-> ""] :
        l \in SeqsUpTo(BodyLines \cup WidgetLines \cup OtherLines, MaxLines), e \in {"\n", "\r\n"}}

InitClean == Idle("text") /\ txt \in CleanInputs

ApplyCleanLines ==
    /\ pc = "text"
    /\ txt.fn = "cleanLines"
    /\ ~txt.done
    /\ txt' = [txt EXCEPT !.done = TRUE,
                          !.out = cleanLines(join(txt.lines, txt.eol), NoCtx)]
    /\ UNCHANGED <<pc, current, visitedPages, collected, dom, lmVisible, lmI, scI,
                   idx, allDetails, output, round, ctl, hist>>

SpecClean == InitClean /\ [][ApplyCleanLines]_vars

\* contents in normal form (as cleanLines returns them): a leading token, a
\* separator and a remainder
AuthorInputs ==
    {[fn |-> "extractAuthorFromContent", in |-> c, done |-> FALSE,
      out |-> [author |-> NoAuthor, content |-> ""]] :
        c \in {c \in {t \o p \o r :
                        t \in {"janedoe92", "Hi", "Hey", "Has", "Hello", "Thanks", "thanks",
                               "We", "ab", "abc", "a-b", "abc-", "x_y", "9lives", "_abc",
                               "Zoe-2"},
                        p \in {"", " ", ",", ", ", ": ", " - ", "-- ", ".", ". ", "_ "},
                        r \in {"", "thanks for the update", "there, I have the same issue",
                               "ok", "- ok"}} :
                  normalizeWhitespace(c) = c}}

InitAuthor == Idle("text") /\ txt \in AuthorInputs

ApplyExtractAuthor ==
    /\ pc = "text"
    /\ txt.fn = "extractAuthorFromContent"
    /\ ~txt.done
    /\ txt' = [txt EXCEPT !.done = TRUE, !.out = extractAuthorFromContent(txt.in)]
    /\ UNCHANGED <<pc, current, visitedPages, collected, dom, lmVisible, lmI, scI,
                   idx, allDetails, output, round, ctl, hist>>

SpecAuthor == InitAuthor /\ [][ApplyExtractAuthor]_vars

MaxReplies == 3        \* message containers after the main post

\* the reconciliation on its own: the containers after the main post, the
\* text of the "<n> Repl.." label and of the page
ReconcileInputs ==
    {[fn |-> "limitedReplies", els |-> e, label |-> l, bodyText |-> b, done |-> FALSE,
      replies |-> <<>>, expected |-> Undefined, out |-> <<>>] :
        e \in SeqsUpTo({MsgBob, MsgZed, MsgNoise, MsgSort}, MaxReplies),
        l \in {Null, "0 Replies", "1 Reply", "2 Replies", "Solved 23 replies"},
        b \in {Null, "Sync 4 comments"}}

\* the cleaned replies, the declared count and the final list of one input
Reconciled(t, replies, expected) ==
    [t EXCEPT !.done = TRUE, !.replies = replies, !.expected = expected,
              !.out = limitedReplies(replies, expected)]

InitReconcile == Idle("text") /\ txt \in ReconcileInputs

ApplyReconcile ==
    /\ pc = "text"
    /\ txt.fn = "limitedReplies"
    /\ ~txt.done
    /\ txt' = Reconciled(txt, CleanReplies(SliceMap(<<MsgMain>> \o txt.els)),
                          expectedReplies([label |-> txt.label, bodyText |-> txt.bodyText]))
    /\ UNCHANGED <<pc, current, visitedPages, collected, dom, lmVisible, lmI, scI,
                   idx, allDetails, output, round, ctl, hist>>

SpecReconcile == InitReconcile /\ [][ApplyReconcile]_vars

\* the author fallback on its own, for the main post and for a reply: the text
\* of the author element ("" when there is none) and the innerText of the body,
\* made of a leading token, a separator and a remainder
InferInputs ==
    {[fn |-> "inferAuthor", kind |-> k, author |-> a, raw |-> c, done |-> FALSE,
      cleaned |-> "", out |-> [author |-> "", content |-> ""]] :
        k \in {"main", "reply"},
        a \in {"", "bob", " ann "},
        c \in {c \in {t \o p \o r :
                        t \in {"zed", "janedoe92", "Thanks", "Hi", "bob", "ann"},
                        p \in {": ", ":", " - ", " "},
                        r \in {"", "works for me", "ok\nLike\n2", "\nsecond line"}} :
                  trim(c) = c}}

InitInfer == Idle("text") /\ txt \in InferInputs

\* the record of the main post (scrapeDiscussionDetail) or of the reply (the
\* callbacks of $$eval and of repliesRaw.map) for one input, and the content as
\* cleanLines returned it
ApplyInfer ==
    /\ pc = "text"
    /\ txt.fn = "inferAuthor"
    /\ ~txt.done
    /\ txt' = [txt EXCEPT
                 !.done = TRUE,
                 !.cleaned =
                     IF txt.kind = "main"
                     THEN cleanLines(txt.raw, [title |-> "", author |-> trim(txt.author),
                                               time |-> ""])
                     ELSE cleanLines(PreFilter(txt.raw), [title |-> "",
                                                          author |-> trim(txt.author),
                                                          time |-> ""]),
                 !.out =
                     IF txt.kind = "main"
                     THEN DetailOf("", DetailPage("", txt.author, "", "", txt.raw, Null,
                                                  Null, 0, <<>>))
                     ELSE CleanReply(RawReplyOf(Message(txt.author, Null, Null, txt.raw,
                                                        "", Null)))]
    /\ UNCHANGED <<pc, current, visitedPages, collected, dom, lmVisible, lmI, scI,
                   idx, allDetails, output, round, ctl, hist>>

SpecInfer == InitInfer /\ [][ApplyInfer]_vars

\* const replySelectors = [..]: the structural queries, in the order of the loop
replySelectors ==
    <<"article", "li[data-testid^='message']", "[data-testid='message-view']",
      ".lia-message-view", "[class*='message']">>

\* the reply loop on its own: what page.$$eval meets for each of the five
\* queries (it throws, or it matches these containers, the first of which need
\* not be the main post), the queries evaluated so far and repliesRaw
SelectInputs ==
    {[fn |-> "replySelectors", outcomes |-> o, evaluated |-> <<>>, repliesRaw |-> <<>>,
      done |-> FALSE] :
        o \in [1..Len(replySelectors) ->
                  {Throws, Found(<<>>), Found(<<MsgMain>>), Found(<<MsgMain, MsgBob>>),
                   Found(<<MsgZed, MsgSort, MsgBob>>)}]}

InitSelect == Idle("text") /\ txt \in SelectInputs

\* one iteration of the reply loop that goes on after a query has yielded replies
TrySelector_NoBreak ==
    /\ pc = "text"
    /\ txt.fn = "replySelectors"
    /\ ~txt.done
    /\ \E raw \in {IF txt.outcomes[Len(txt.evaluated) + 1].throws
                    THEN txt.repliesRaw
                    ELSE SliceMap(txt.outcomes[Len(txt.evaluated) + 1].els)} :
          txt' = [txt EXCEPT !.evaluated = Append(@, replySelectors[Len(@) + 1]),
                             !.repliesRaw = raw,
                             !.done = Len(txt.evaluated) + 1 = Len(replySelectors)]
    /\ UNCHANGED <<pc, current, visitedPages, collected, dom, lmVisible, lmI, scI,
                   idx, allDetails, output, round, ctl, hist>>

\* one iteration of for (const selector of replySelectors): repliesRaw is
\* assigned unless page.$$eval throws; the loop ends at the break or after the
\* last selector
TrySelector ==
    /\ pc = "text"
    /\ txt.fn = "replySelectors"
    /\ ~txt.done
    /\ \E raw \in {IF txt.outcomes[Len(txt.evaluated) + 1].throws
                    THEN txt.repliesRaw
                    ELSE SliceMap(txt.outcomes[Len(txt.evaluated) + 1].els)} :
          txt' = [txt EXCEPT !.evaluated = Append(@, replySelectors[Len(@) + 1]),
                             !.repliesRaw = raw,
                             !.done = \/ /\ ~txt.outcomes[Len(txt.evaluated) + 1].throws
                                         /\ Len(raw) > 0
                                      \/ Len(txt.evaluated) + 1 = Len(replySelectors)]
    /\ UNCHANGED <<pc, current, visitedPages, collected, dom, lmVisible, lmI, scI,
                   idx, allDetails, output, round, ctl, hist>>

SpecSelect == InitSelect /\ [][TrySelector]_vars

-----------------------------------------------------------------------------
(* Properties                                                              *)

NoDuplicates(seq) == \A i, j \in 1..Len(seq) : i # j => seq[i] # seq[j]

Range(seq) == {seq[k] : k \in 1..Len(seq)}

Min(a, b) == IF a <= b THEN a ELSE b

\* positions of the control flow after the pagination loop
AfterCrawl ==
    {"drv_head", "det_goto", "det_wait", "det_expand1", "det_scroll", "det_expand2",
     "det_read", "drv_catch", "write", "done"}

\* a row now rendered repeats a stored URL with other field values
ResightedWithOtherValues ==
    \E k \in 1..Len(dom), j \in 1..Len(collected) :
        /\ SummariesOf[dom][k].url = collected[j].url
        /\ SummariesOf[dom][k] # collected[j]

C1_StoreIsFirstSightings ==
    /\ NoDuplicates(URLsOf(collected))
    /\ Range(URLsOf(collected)) = Range(URLsOf(hist.firstSeen))
    /\ \A k \in 1..Len(collected), j \in 1..Len(hist.firstSeen) :
          collected[k].url = hist.firstSeen[j].url => collected[k] = hist.firstSeen[j]

C1_EntriesKept ==
    \A k \in 1..Len(collected) : k <= Len(collected') /\ collected'[k] = collected[k]

\* C1: after any sequence of collect steps the dedup store holds exactly one
\* entry per sighted (non-empty) URL, with the field values of the first
\* sighting; no step changes or removes an entry.
C1_Dedup == []C1_StoreIsFirstSightings /\ [][C1_EntriesKept]_vars

C1_Witness ==
    /\ pc \in {"list_more", "list_scroll", "list_next"}
    /\ Len(collected) >= 2
    /\ ResightedWithOtherValues

\* C2: when the pagination loop has ended, the dedup store is exactly the set
\* of rows with a non-empty URL rendered on the visited listing pages, each URL
\* with the values of its earliest rendering.
C2_StoreIsUnionOfPages ==
    pc \in AfterCrawl =>
        /\ Range(collected) = Range(hist.rendered)
        /\ Len(collected) = Len(hist.rendered)

C2_Witness ==
    /\ pc = "drv_head"
    /\ Cardinality(visitedPages) = 2
    /\ Len(collected) = 3
    /\ ResightedWithOtherValues

\* C3 as stated: run twice on a page whose content does not change between the
\* calls, the second expandAllContent call clicks nothing and returns after its
\* first round.
C3_SecondCallIdle ==
    pc = "det_read" /\ ~hist.between => hist.acts = 0 /\ hist.rounds = 1

\* C3 amended: when no reveal control is visible as the second call begins,
\* the second call clicks nothing and returns after its first round.
C3_IdleWhenNothingVisible ==
    pc = "det_read" /\ hist.vis2 = 0 => hist.acts = 0 /\ hist.rounds = 1

C3_Witness ==
    /\ pc = "det_read"
    /\ hist.acts1
    /\ hist.vis2 = 0
    /\ hist.rounds = 1

\* C4: with a declared count n the final replies are the first min(n, k)
\* entries of the cleaned list of length k, in order; without one they are
\* the cleaned list.
C4_Reconciled ==
    txt.fn = "limitedReplies" /\ txt.done =>
        IF txt.expected # Undefined
        THEN /\ Len(txt.out) = Min(txt.expected, Len(txt.replies))
             /\ Len(txt.out) <= txt.expected
             /\ \A k \in 1..Len(txt.out) : txt.out[k] = txt.replies[k]
        ELSE txt.out = txt.replies

C4_Witness ==
    /\ txt.fn = "limitedReplies"
    /\ txt.done
    /\ txt.expected = 1
    /\ Len(txt.replies) = 3
    /\ txt.out = <<txt.replies[1]>>

\* the declared reply count of each page of the model, computed once
Declared == [page \in DetailPages |-> expectedReplies(page)]

\* the record was extracted from this page
FromPage(rec, page) ==
    [rec EXCEPT !.url = "", !.views = 0, !.likes = 0]
        = [Extracted[page] EXCEPT !.views = 0, !.likes = 0]

\* C5: every record of the export has comments = len(replies), also after
\* the driver has overwritten views and likes.
C5_CommentsIsReplyCount ==
    /\ \A k \in 1..Len(allDetails) : allDetails[k].comments = Len(allDetails[k].replies)
    /\ \A k \in 1..Len(output.data) : output.data[k].comments = Len(output.data[k].replies)

C5_Witness ==
    /\ output.written
    /\ \E k \in 1..Len(output.data), j \in 1..Len(collected) :
          /\ FromPage(output.data[k], PageNews)
          /\ collected[j].url = output.data[k].url
          /\ collected[j].comments # output.data[k].comments
          /\ Declared[PageNews] # output.data[k].comments
          /\ collected[j].views # Extracted[PageNews].views
          /\ output.data[k].views = collected[j].views

\* C6: no reply of an exported record has both an empty author and an empty
\* content.
C6_NoEmptyReply ==
    \A k \in 1..Len(allDetails) : \A i \in 1..Len(allDetails[k].replies) :
        ~(allDetails[k].replies[i].author = "" /\ allDetails[k].replies[i].content = "")

C6_Witness ==
    /\ output.written
    /\ \E k \in 1..Len(output.data) :
          /\ FromPage(output.data[k], PageBare)
          /\ Len(output.data[k].replies) = 2
    /\ LET r == CleanReply(RawReplyOf(MsgNoise)) IN r.author = "" /\ r.content = ""

IsBodyLine(l) == l \in BodyLines

\* C7: for a raw text of genuine body lines interleaved with noise lines the
\* cleaned content is the body lines joined by single spaces, in order.
C7_CleanKeepsBody ==
    /\ txt.fn = "cleanLines"
    /\ txt.done
    /\ Range(txt.lines) \subseteq BodyLines \cup WidgetLines
    => txt.out = join(SelectSeq(txt.lines, IsBodyLine), " ")

RECURSIVE StripSeparators(_)
StripSeparators(s) ==
    IF s # "" /\ Head(s) \in SepChars THEN StripSeparators(Tail(s)) ELSE s

\* the lengths of the leading word-like tokens of c that are followed by
\* punctuation or white space
TokenLengths(c) ==
    {n \in 3..Len(c) :
        /\ Head(c) \in Letters
        /\ \A i \in 1..n : At(c, i) \in TokenChars
        /\ At(c, n) \in WordChars
        /\ At(c, n + 1) \in SepChars}

\* C8: a cleaned content that begins with a word-like token of at least 3
\* characters followed by punctuation or white space gives the token as author
\* and the rest as content, unless the token is blacklisted; otherwise no
\* author is returned and the content is unchanged.
C8_AuthorInference ==
    txt.fn = "extractAuthorFromContent" /\ txt.done =>
        LET c == txt.in
            lens == TokenLengths(c)
            n == CHOOSE m \in lens : \A l \in lens : l <= m
        IN  /\ IF lens # {} /\ SubSeq(c, 1, n) \notin blacklist
               THEN /\ txt.out.author = SubSeq(c, 1, n)
                    /\ txt.out.content = trim(StripSeparators(SubSeq(c, n + 1, Len(c))))
               ELSE /\ txt.out.author = NoAuthor
                    /\ txt.out.content = c
            /\ c = "Hi there, I have the same issue" =>
                  txt.out.author = NoAuthor /\ txt.out.content = c
            /\ Head(c) \in {"H", "T"} /\ lens # {} /\ SubSeq(c, 1, n) \in blacklist =>
                  txt.out.author = NoAuthor /\ txt.out.content = c

C8_Witness ==
    /\ txt.fn = "extractAuthorFromContent"
    /\ txt.done
    /\ txt.in = "janedoe92, thanks for the update"
    /\ txt.out = [author |-> "janedoe92", content |-> "thanks for the update"]

\* C9: detail extraction is attempted exactly once for every URL of the dedup
\* store, in the order of the store; a failed attempt is not repeated and the
\* URLs after it are still attempted.
C9_EachAttemptedOnce ==
    /\ NoDuplicates(hist.attempts)
    /\ Len(hist.attempts) <= Len(collected)
    /\ \A k \in 1..Len(hist.attempts) : hist.attempts[k] = collected[k].url
    /\ hist.failed \subseteq Range(hist.attempts)
    /\ pc \in {"write", "done"} => Len(hist.attempts) = Len(collected)

C9_Witness ==
    /\ pc = "done"
    /\ \E i, j \in 1..Len(collected) :
          /\ i < j
          /\ collected[i].url \in hist.failed
          /\ collected[j].url \in Range(URLsOf(output.data))

NotFailed(u) == u \notin hist.failed

\* C10: the export holds exactly one record for every discovered URL whose
\* extraction succeeded and none for a failed one, in the order of discovery.
C10_ExportInDiscoveryOrder ==
    /\ output.written =>
          URLsOf(output.data) = SelectSeq(URLsOf(collected), NotFailed)
    /\ NoDuplicates(URLsOf(allDetails))
    /\ Range(URLsOf(allDetails)) \cap hist.failed = {}

C10_Witness ==
    /\ output.written
    /\ hist.failed # {}
    /\ Len(output.data) >= 2

\* positions of the control flow inside the pagination loop
InCrawl == {"list_head", "list_wait", "list_more", "list_scroll", "list_next"}

C11_GuardStops ==
    pc = "list_head" /\ current # Null /\ current \in visitedPages =>
        pc' = "drv_head" /\ visitedPages' = visitedPages /\ hist'.gotos = hist.gotos

\* C11: the List Crawler never navigates to the same listing URL twice; a
\* next link that resolves to a URL already visited ends the crawl; the
\* pagination loop terminates, also when the next links form a cycle or point
\* to the page itself.
C11_CycleGuard ==
    /\ [](NoDuplicates(hist.gotos) /\ visitedPages \subseteq Range(hist.gotos))
    /\ [][C11_GuardStops]_vars
    /\ <>(pc \notin InCrawl \cup {"main"})

C11_Witness ==
    /\ pc = "drv_head"
    /\ current = targetUrl
    /\ hist.gotos = <<PageURL(1), PageURL(2)>>

\* C12: the only failure that ends the run early is the navigation to the
\* start listing page; a failed navigation to a later listing page and a next
\* link that cannot be resolved are recovered, and the run goes on to its end.
C12_OnlyStartNavigationAborts ==
    pc = "aborted" =>
        /\ hist.fatal \in {"main: page.goto", "page.goto"}
        /\ hist.gotos \in {<<>>, <<targetUrl>>}

C13_EmptyPageStep ==
    pc = "list_wait" /\ dom = <<>> =>
        /\ pc' = "list_more"
        /\ collected' = collected
        /\ hist'.fatal = "none"
        /\ lmI' = 0

\* C13: when no list item ever appears on a listing page, the wait's timeout
\* raises no error, the first collection of the page leaves the dedup store
\* as it was, and the crawl goes on with the in-page expansion of that page.
C13_AbsentListTolerated == [][C13_EmptyPageStep]_vars

C13_Witness ==
    /\ pc = "list_more"
    /\ lmI = 0
    /\ dom = <<>>
    /\ Cardinality(visitedPages) = 2
    /\ Len(collected) > 0

\* the record has the views and likes of the summary stored under its URL and
\* is, in every other field, what the Detail Extractor returned for some page
CountersFromListing(rec) ==
    /\ \E j \in 1..Len(collected) :
          /\ collected[j].url = rec.url
          /\ rec.views = collected[j].views
          /\ rec.likes = collected[j].likes
    /\ \E page \in DetailPages : FromPage(rec, page)

\* C14: every exported record has the views and likes of the summary stored
\* under its URL, not those of the detail page, and differs from the extracted
\* record in no other field.
C14_ListingCountersWin ==
    /\ \A k \in 1..Len(allDetails) : CountersFromListing(allDetails[k])
    /\ output.written => output.data = allDetails

C14_Witness ==
    /\ output.written
    /\ \E k \in 1..Len(output.data) :
          /\ FromPage(output.data[k], PageSync)
          /\ output.data[k].views # Extracted[PageSync].views
          /\ output.data[k].likes # Extracted[PageSync].likes
          /\ output.data[k].comments = 1

\* positions of the control flow inside a call of expandAllContent
Expanding == {"det_expand1", "det_expand2"}

C15_RoundStep ==
    pc \in Expanding =>
        /\ pc' \in {pc, AfterExpand(pc)}
        /\ round < RoundLimit /\ Clicks(ctl) = 0 => pc' = AfterExpand(pc)
        /\ round < RoundLimit /\ Clicks(ctl) > 0 =>
              pc' = pc /\ hist'.rounds = hist.rounds + 1
        /\ round >= RoundLimit => pc' = AfterExpand(pc)

\* C15: a call of expandAllContent runs at most 50 rounds: it returns after
\* the first round that clicked nothing, and when every round clicks something
\* it returns after round 50, normally. (Every step of a call is possible and
\* either adds a round or returns.)
C15_RevealerTerminates ==
    /\ [](pc \in Expanding =>
            /\ hist.rounds <= RoundLimit
            /\ round = hist.rounds
            /\ ENABLED (ExpandRound \/ ExpandEnd))
    /\ [][C15_RoundStep]_vars

C15_Witness ==
    /\ pc = "det_scroll"
    /\ hist.rounds = RoundLimit
    /\ hist.acts = RoundLimit

\* the calls of scrapeDiscussionDetail before its first field read
DetailOrder ==
    <<"page.goto", "page.waitForSelector", "expandAllContent", "page.evaluate",
      "expandAllContent">>

IsPrefix(a, b) == Len(a) <= Len(b) /\ \A k \in 1..Len(a) : a[k] = b[k]

C16_ReadStep ==
    allDetails' # allDetails => pc = "det_read" /\ hist.steps = DetailOrder

\* C16: an extraction navigates, waits for the article/title marker, runs
\* the revealer, does the bulk scroll once, runs the revealer again, and only
\* then reads the fields of the record.
C16_ReadsAfterSecondPass ==
    /\ [](IsPrefix(hist.steps, DetailOrder))
    /\ [](pc = "det_read" => hist.steps = DetailOrder)
    /\ [][C16_ReadStep]_vars

C16_Witness ==
    /\ pc = "det_read"
    /\ hist.steps = DetailOrder
    /\ hist.acts1
    /\ hist.between
    /\ hist.acts > 0

\* every row now rendered with a non-empty URL is in the dedup store
RowsCollected ==
    \A k \in 1..Len(dom) :
        SummariesOf[dom][k].url # "" => Has(collected, SummariesOf[dom][k].url)

C17_ExpansionStep ==
    /\ pc = "list_more" /\ (~lmVisible \/ lmI >= LoadMoreLimit) =>
          pc' = "list_scroll" /\ dom' = dom /\ collected' = collected
    /\ pc = "list_more" /\ lmVisible /\ lmI < LoadMoreLimit =>
          pc' = "list_more" /\ lmI' = lmI + 1
    /\ pc = "list_scroll" /\ scI < ScrollLimit =>
          IF hist'.grew THEN pc' = "list_scroll" /\ scI' = scI + 1 ELSE pc' = "list_next"
    /\ pc = "list_scroll" /\ scI >= ScrollLimit =>
          pc' = "list_next" /\ dom' = dom /\ collected' = collected

\* C17: on a listing page at most 20 load-more clicks and at most 20 scroll
\* steps are made; the load-more loop ends when no control is visible, the
\* scroll loop after the first step that did not increase the page height; after
\* every click and every scroll step the rendered rows are in the dedup store
\* before the next step.
C17_BoundedExpansion ==
    /\ [](lmI <= LoadMoreLimit /\ scI <= ScrollLimit)
    /\ [](pc \in {"list_more", "list_scroll", "list_next"} => RowsCollected)
    /\ [][C17_ExpansionStep]_vars

C17_Witness ==
    /\ pc = "list_more"
    /\ lmI = LoadMoreLimit
    /\ lmVisible
    /\ Len(collected) = 3

\* positions of the control flow inside an extraction, its failure included
InDetail ==
    {"det_goto", "det_wait", "det_expand1", "det_scroll", "det_expand2", "det_read",
     "drv_catch"}

\* extractions begun and neither returned nor failed yet
InProgress == Len(hist.attempts) - Len(allDetails) - Cardinality(hist.failed)

C18_DetailPhaseStep ==
    pc \in AfterCrawl =>
        /\ collected' = collected
        /\ visitedPages' = visitedPages
        /\ pc' \in AfterCrawl

\* C18: no extraction begins before the pagination loop has ended; at most
\* one extraction is in progress, the next beginning only after the previous one
\* has returned or failed; the dedup store and the visited set do not change
\* during the detail phase.
C18_TwoSequentialPhases ==
    /\ [](pc \in AfterCrawl => current = Null \/ current \in visitedPages)
    /\ [](pc \notin AfterCrawl => hist.attempts = <<>>)
    /\ [](InProgress = IF pc \in InDetail THEN 1 ELSE 0)
    /\ [][C18_DetailPhaseStep]_vars

C18_Witness ==
    /\ pc = "det_goto"
    /\ Len(hist.attempts) = 3
    /\ Len(allDetails) = 1
    /\ Cardinality(hist.failed) = 1
    /\ Cardinality(visitedPages) = 2

\* C19: when the author element gave a non-empty author, for the main post
\* and for a reply, the record has that author, trimmed, and its content is the
\* cleaned content unchanged.
C19_StructuralAuthorKept ==
    txt.fn = "inferAuthor" /\ txt.done /\ trim(txt.author) # "" =>
        /\ txt.out.author = trim(txt.author)
        /\ txt.out.content = txt.cleaned

C19_Witness ==
    /\ txt.fn = "inferAuthor"
    /\ txt.done
    /\ txt.kind = "reply"
    /\ txt.author = " ann "
    /\ txt.cleaned = "zed: works for me"
    /\ txt.out.author = "ann"
    /\ txt.out.content = "zed: works for me"

\* C20: when there is no structural author and the inference accepts the
\* leading token of the cleaned content, the record has the token as author and
\* the remainder as content, also when the remainder is empty; the content does
\* not begin with the token and its separator.
C20_TokenLeavesContent ==
    /\ txt.fn = "inferAuthor"
    /\ txt.done
    /\ trim(txt.author) = ""
    /\ extractAuthorFromContent(txt.cleaned).author # NoAuthor
    => /\ txt.out.author = extractAuthorFromContent(txt.cleaned).author
       /\ txt.out.content = extractAuthorFromContent(txt.cleaned).content

\* C21: the content returned by cleanLines contains none of the role tokens
\* "contributor", "ambassador", "support team", in any letter case, whatever
\* the raw text was.
C21_NoRoleTokenInContent ==
    /\ txt.fn = "cleanLines"
    /\ txt.done
    => \A t \in roleTokens : ~includes(toLowerCase(txt.out), t)

\* a query yields replies when it does not throw and matches at least one
\* container beyond the first
Yields(o) == ~o.throws /\ Len(o.els) > 1

\* the containers of a match after the first one, as the callback reads them
BeyondFirst(els) == [j \in 1..(Len(els) - 1) |-> RawReplyOf(els[j + 1])]

\* C22: the queries are evaluated in the fixed order and none is evaluated
\* after one has yielded a match beyond the first; at the end of the loop the
\* raw reply list is the matches of the first yielding query without its first
\* match, queries that throw or match at most one container being passed over,
\* and it is empty when no query yields; this is the list the Detail Extractor
\* cleans.
C22_FirstYieldingQuery ==
    txt.fn = "replySelectors" =>
        /\ IsPrefix(txt.evaluated, replySelectors)
        /\ \A k \in 1..(Len(txt.evaluated) - 1) : ~Yields(txt.outcomes[k])
        /\ ~txt.done => txt.repliesRaw = <<>> /\ Len(txt.evaluated) < Len(replySelectors)
        /\ txt.done =>
              /\ IF \E k \in DOMAIN txt.outcomes : Yields(txt.outcomes[k])
                 THEN /\ Yields(txt.outcomes[Len(txt.evaluated)])
                      /\ txt.repliesRaw = BeyondFirst(txt.outcomes[Len(txt.evaluated)].els)
                 ELSE /\ txt.evaluated = replySelectors
                      /\ txt.repliesRaw = <<>>
              /\ txt.repliesRaw = RepliesRawFrom(txt.outcomes, 1)

\* the first query matches only the main post, the second throws, the third
\* yields one reply and the fourth, which would yield as well, is not evaluated
C22_Witness ==
    /\ txt.fn = "replySelectors"
    /\ txt.done
    /\ txt.outcomes[1] = Found(<<MsgMain>>)
    /\ txt.outcomes[2] = Throws
    /\ txt.outcomes[3] = Found(<<MsgMain, MsgBob>>)
    /\ txt.outcomes[4] = Found(<<MsgZed, MsgSort, MsgBob>>)
    /\ txt.evaluated = SubSeq(replySelectors, 1, 3)
    /\ txt.repliesRaw = <<RawReplyOf(MsgBob)>>

\* the author the fallback finds at the start of the cleaned body of each page
\* (NoAuthor when it accepts none), computed once
LeadingAuthor ==
    [page \in DetailPages |->
        extractAuthorFromContent(
            cleanLines(OrEmpty(page.body), [title |-> trim(OrEmpty(page.title)),
                                            author |-> trim(OrEmpty(page.author)),
                                            time |-> trim(OrEmpty(page.time))])).author]

\* the record extracted from page has the default in every field whose element
\* is absent, the author aside, and no likes
DefaultsFor(page) ==
    /\ page.title = Null => Extracted[page].title = ""
    /\ page.time = Null => Extracted[page].time = ""
    /\ page.role = Null => Extracted[page].authorRole = ""
    /\ page.body = Null => Extracted[page].content = ""
    /\ page.views = 0 => Extracted[page].views = 0
    /\ Extracted[page].likes = 0

\* a failed item is recorded for its own URL and the driver goes on with the
\* next URL, the records so far untouched
C23_CatchStep ==
    pc = "drv_catch" /\ pc' # pc =>
        /\ hist'.failed = hist.failed \cup {collected[idx].url}
        /\ allDetails' = allDetails
        /\ idx' = idx + 1
        /\ pc' = "drv_head"

PreviousFailed ==
    /\ Len(hist.attempts) > 1
    /\ hist.attempts[Len(hist.attempts) - 1] \in hist.failed

\* a detail navigation is taken after a delay and starts a new interval; the
\* catch of a failed item adds the fixed delay
C24_PaceStep ==
    /\ pc = "det_goto" /\ pc' # pc => hist.pace # <<>> /\ hist'.pace = <<>>
    /\ pc = "drv_catch" /\ pc' # pc => hist'.pace = <<5000>>

\* C24: when scrapeDiscussionDetail is about to navigate, the driver has
\* waited since the previous detail navigation: a random delay of 1000 to
\* 4000 ms, preceded by a fixed delay of 5000 ms when the previous item
\* failed; no detail navigation is taken without a delay since the previous one.
C24_Pacing ==
    /\ [](pc = "det_goto" =>
             /\ hist.pace # <<>>
             /\ hist.pace[Len(hist.pace)] \in 1000..4000
             /\ IF PreviousFailed
                THEN Len(hist.pace) = 2 /\ hist.pace[1] = 5000
                ELSE Len(hist.pace) = 1)
    /\ [][C24_PaceStep]_vars

\* the second item is about to be fetched after the first one failed
C24_Witness ==
    /\ pc = "det_goto"
    /\ Len(hist.attempts) = 2
    /\ hist.failed = {hist.attempts[1]}
    /\ hist.pace = <<5000, 2500>>

\* C25: the store never holds an entry with an empty URL and holds one entry
\* per URL, the one set under that URL; a row without title link, or whose
\* link has no URL, is not stored, and no empty URL is handed to the Detail
\* Extractor or exported.
C25_NoEmptyURL ==
    /\ \A k \in 1..Len(collected) :
          /\ collected[k].url # ""
          /\ \E r \in Renderings : \E j \in 1..Len(r) :
                r[j].link.present /\ SummariesOf[r][j] = collected[k]
    /\ NoDuplicates(URLsOf(collected))
    /\ "" \notin Range(hist.attempts)
    /\ Range(hist.attempts) \subseteq Range(URLsOf(collected))
    /\ "" \notin Range(URLsOf(allDetails)) \cup Range(URLsOf(output.data))

\* the store holds B and C as first rendered together with a row without title
\* link, then A as first rendered together with a title link without href, and
\* the driver has gone through the whole store
C25_Witness ==
    /\ pc = "write"
    /\ Len(collected) = 3
    /\ collected[1].title = "Topic B"
    /\ collected[2].title = "Topic C" /\ collected[2].time = "3d"
    /\ collected[3].title = "Topic A (edited)"
    /\ Len(hist.attempts) = 3

\* the output changes only by the one write of main: nothing was written
\* before, the pagination loop has ended without a fatal error, every stored
\* URL has been attempted, and what is written is the list of all records
C26_WriteStep ==
    output' # output =>
        /\ ~output.written
        /\ pc = "write" /\ pc' = "done"
        /\ hist.fatal = "none"
        /\ idx > Len(collected)
        /\ hist.attempts = URLsOf(collected)
        /\ output' = [written |-> TRUE, data |-> allDetails]

\* C26: the output is written at most once, and only when the listing crawl
\* and the attempt of every stored URL are over; until then nothing is
\* exported, and a run aborted during the listing crawl has stopped for good
\* without output, whatever summaries its store held.
C26_OutputOnce ==
    /\ [][C26_WriteStep]_vars
    /\ [](output.written <=> pc = "done")
    /\ [](~output.written => output = NotWritten)
    /\ [](pc = "aborted" => ~output.written /\ allDetails = <<>> /\ ~ENABLED Next)

\* a finished run: the store held three URLs, one attempt failed, and the one
\* write exported the two records
C26_Witness ==
    /\ pc = "done"
    /\ output.written
    /\ Len(collected) = 3
    /\ Cardinality(hist.failed) = 1
    /\ Len(output.data) = 2
    /\ output.data = allDetails

====
